---- MODULE Spec2Model ----
(***************************************************************************)
(* A model of framework_name/core.py: Memory, Toolbox, KGExecutor and the  *)
(* KGAgent.run loop with its response parser.                              *)
(*                                                                         *)
(* Python objects are modelled with a heap: a dict that Memory stores is   *)
(* an object with an identity, `heap` maps identities to the dicts'        *)
(* current values, and lists (Memory._store, the list a caller got from    *)
(* Memory.query) are sequences of identities.  Text is a sequence of       *)
(* one-character strings, so that strip, upper, startswith and split are   *)
(* computed as Python computes them.                                       *)
(***************************************************************************)
EXTENDS Integers, Sequences, FiniteSets, TLC

VARIABLES
    store,      \* Memory._store: list of references to dicts
    heap,       \* the dicts: heap[ref] is the current value of dict `ref`
    tools,      \* Toolbox._tools: name -> callable
    result,     \* the list the caller got from its last Memory.query
    executor,   \* the executor the agent was constructed with
    max_steps,  \* KGAgent.max_steps
    pc,         \* position of KGAgent.run: idle, loop, returned, raised
    step,       \* the loop variable of run
    state,      \* run's local state['steps']
    ret,        \* what the last run / Toolbox.call returned or raised
    llmLog,     \* the model invocations of the current run, in order, each
                \* with the response the model gave
    callLog,    \* the tool and executor invocations of the current operation
    runBase,    \* Len(store) when the current run started
    lastOp      \* the operation the last step performed, and the question
                \* of a run

vars == <<store, heap, tools, result, executor, max_steps, pc, step, state,
          ret, llmLog, callLog, runBase, lastOp>>

----------------------------------------------------------------------------
(* Bounds of the model *)

\* largest max_steps an agent is constructed with
MaxSteps == 3
\* largest number of records Memory holds
MaxStore == 4
\* largest number of pieces in the body of a response text
MaxPieces == 3

----------------------------------------------------------------------------
(* Text: Python str as a sequence of one-character strings *)

\* Python's None, which is no str: the key argument of Memory.query when
\* omitted, the state's memory_summary, what a function without a return
\* statement gives
None == [none |-> TRUE]

\* a str given as the key argument of Memory.query; StrKey("None") is the
\* str 'None', which is not None
StrKey(k) == [str |-> k]

\* A character is a string.  The printable characters of ASCII but the
\* grave accent, and the tab, the line feed, the form feed and the carriage
\* return, are written as themselves.  Every other character is named by
\* its escape in lower-case hexadecimal digits, \xNN up to U+00FF, \uNNNN
\* up to U+FFFF, \UNNNNNNNN above: "\\x60" is the grave accent, "\\x0b" the
\* one character U+000B, "\\xdf" the letter sharp s, "\\u017f" the letter
\* long s, "\\U0001f600" the character U+1F600.

\* the characters str.strip() and str.split() take as whitespace
Whitespace ==
    { " ", "\t", "\n", "\r", "\f", "\\x0b", "\\x1c", "\\x1d", "\\x1e",
      "\\x1f", "\\x85", "\\xa0", "\\u1680", "\\u2000", "\\u2001",
      "\\u2002", "\\u2003", "\\u2004", "\\u2005", "\\u2006", "\\u2007",
      "\\u2008", "\\u2009", "\\u200a", "\\u2028", "\\u2029", "\\u202f",
      "\\u205f", "\\u3000" }

\* the printable characters of ASCII, U+0020 to U+007E, in code point
\* order; the grave accent among them is named by its escape
Ascii ==
   <<
      " ", "!", "\"", "#", "$", "%", "&", "'", "(", ")", "*", "+", ",",
      "-", ".", "/", "0", "1", "2", "3", "4", "5", "6", "7", "8", "9", ":",
      ";", "<", "=", ">", "?", "@", "A", "B", "C", "D", "E", "F", "G", "H",
      "I", "J", "K", "L", "M", "N", "O", "P", "Q", "R", "S", "T", "U", "V",
      "W", "X", "Y", "Z", "[", "\\", "]", "^", "_", "\\x60", "a", "b", "c",
      "d", "e", "f", "g", "h", "i", "j", "k", "l", "m", "n", "o", "p", "q",
      "r", "s", "t", "u", "v", "w", "x", "y", "z", "{", "|", "}", "~" >>

HexDigits ==
    <<"0", "1", "2", "3", "4", "5", "6", "7", "8", "9", "a", "b", "c", "d",
      "e", "f">>

HexVal(d) == (CHOOSE i \in 1..Len(HexDigits) : HexDigits[i] = d) - 1

\* the number a string of hexadecimal digits writes
RECURSIVE HexNum(_)
HexNum(h) ==
    IF Len(h) = 0 THEN 0
    ELSE HexNum(SubSeq(h, 1, Len(h) - 1)) * 16
             + HexVal(SubSeq(h, Len(h), Len(h)))

\* n in w hexadecimal digits
RECURSIVE Hex(_, _)
Hex(n, w) ==
    IF w = 0 THEN "" ELSE Hex(n \div 16, w - 1) \o HexDigits[(n % 16) + 1]

\* the code points of the characters written as themselves
OrdOf ==
    [c \in {Ascii[i] : i \in 1..Len(Ascii)} \cup {"\t", "\n", "\f", "\r"} |->
        CASE c = "\t" -> 9
          [] c = "\n" -> 10
          [] c = "\f" -> 12
          [] c = "\r" -> 13
          [] OTHER -> 31 + CHOOSE i \in 1..Len(Ascii) : Ascii[i] = c]

\* ord(c)
Ord(c) ==
    IF c \in DOMAIN OrdOf THEN OrdOf[c] ELSE HexNum(SubSeq(c, 3, Len(c)))

\* the escape of a code point: \xNN, \uNNNN or \UNNNNNNNN
Escape(n) ==
    IF n < 256 THEN "\\x" \o Hex(n, 2)
    ELSE IF n < 65536 THEN "\\u" \o Hex(n, 4)
    ELSE "\\U" \o Hex(n, 8)

\* chr(n)
Chr(n) ==
    IF 32 <= n /\ n <= 126 THEN Ascii[n - 31]
    ELSE CASE n = 9 -> "\t"
           [] n = 10 -> "\n"
           [] n = 12 -> "\f"
           [] n = 13 -> "\r"
           [] OTHER -> Escape(n)

\* str.upper of the characters above U+007F whose upper case is one other
\* character: <<first, last, step, offset>>, every step-th code point from
\* first to last has its upper case at the offset
UpperRanges ==
   <<
      <<181, 181, 1, 743>>, <<224, 246, 1, -32>>, <<248, 254, 1, -32>>,
      <<255, 255, 1, 121>>, <<257, 303, 2, -1>>, <<305, 305, 1, -232>>,
      <<307, 311, 2, -1>>, <<314, 328, 2, -1>>, <<331, 375, 2, -1>>,
      <<378, 382, 2, -1>>, <<383, 383, 1, -300>>, <<384, 384, 1, 195>>,
      <<387, 389, 2, -1>>, <<392, 392, 1, -1>>, <<396, 396, 1, -1>>,
      <<402, 402, 1, -1>>, <<405, 405, 1, 97>>, <<409, 409, 1, -1>>,
      <<410, 410, 1, 163>>, <<414, 414, 1, 130>>, <<417, 421, 2, -1>>,
      <<424, 424, 1, -1>>, <<429, 429, 1, -1>>, <<432, 432, 1, -1>>,
      <<436, 438, 2, -1>>, <<441, 441, 1, -1>>, <<445, 445, 1, -1>>,
      <<447, 447, 1, 56>>, <<453, 453, 1, -1>>, <<454, 454, 1, -2>>,
      <<456, 456, 1, -1>>, <<457, 457, 1, -2>>, <<459, 459, 1, -1>>,
      <<460, 460, 1, -2>>, <<462, 476, 2, -1>>, <<477, 477, 1, -79>>,
      <<479, 495, 2, -1>>, <<498, 498, 1, -1>>, <<499, 499, 1, -2>>,
      <<501, 501, 1, -1>>, <<505, 543, 2, -1>>, <<547, 563, 2, -1>>,
      <<572, 572, 1, -1>>, <<575, 576, 1, 10815>>, <<578, 578, 1, -1>>,
      <<583, 591, 2, -1>>, <<592, 592, 1, 10783>>, <<593, 593, 1, 10780>>,
      <<594, 594, 1, 10782>>, <<595, 595, 1, -210>>, <<596, 596, 1, -206>>,
      <<598, 599, 1, -205>>, <<601, 601, 1, -202>>, <<603, 603, 1, -203>>,
      <<604, 604, 1, 42319>>, <<608, 608, 1, -205>>,
      <<609, 609, 1, 42315>>, <<611, 611, 1, -207>>,
      <<613, 613, 1, 42280>>, <<614, 614, 1, 42308>>,
      <<616, 616, 1, -209>>, <<617, 617, 1, -211>>, <<618, 618, 1, 42308>>,
      <<619, 619, 1, 10743>>, <<620, 620, 1, 42305>>,
      <<623, 623, 1, -211>>, <<625, 625, 1, 10749>>, <<626, 626, 1, -213>>,
      <<629, 629, 1, -214>>, <<637, 637, 1, 10727>>, <<640, 640, 1, -218>>,
      <<642, 642, 1, 42307>>, <<643, 643, 1, -218>>,
      <<647, 647, 1, 42282>>, <<648, 648, 1, -218>>, <<649, 649, 1, -69>>,
      <<650, 651, 1, -217>>, <<652, 652, 1, -71>>, <<658, 658, 1, -219>>,
      <<669, 669, 1, 42261>>, <<670, 670, 1, 42258>>, <<837, 837, 1, 84>>,
      <<881, 883, 2, -1>>, <<887, 887, 1, -1>>, <<891, 893, 1, 130>>,
      <<940, 940, 1, -38>>, <<941, 943, 1, -37>>, <<945, 961, 1, -32>>,
      <<962, 962, 1, -31>>, <<963, 971, 1, -32>>, <<972, 972, 1, -64>>,
      <<973, 974, 1, -63>>, <<976, 976, 1, -62>>, <<977, 977, 1, -57>>,
      <<981, 981, 1, -47>>, <<982, 982, 1, -54>>, <<983, 983, 1, -8>>,
      <<985, 1007, 2, -1>>, <<1008, 1008, 1, -86>>, <<1009, 1009, 1, -80>>,
      <<1010, 1010, 1, 7>>, <<1011, 1011, 1, -116>>,
      <<1013, 1013, 1, -96>>, <<1016, 1016, 1, -1>>, <<1019, 1019, 1, -1>>,
      <<1072, 1103, 1, -32>>, <<1104, 1119, 1, -80>>,
      <<1121, 1153, 2, -1>>, <<1163, 1215, 2, -1>>, <<1218, 1230, 2, -1>>,
      <<1231, 1231, 1, -15>>, <<1233, 1327, 2, -1>>,
      <<1377, 1414, 1, -48>>, <<4304, 4346, 1, 3008>>,
      <<4349, 4351, 1, 3008>>, <<5112, 5117, 1, -8>>,
      <<7296, 7296, 1, -6254>>, <<7297, 7297, 1, -6253>>,
      <<7298, 7298, 1, -6244>>, <<7299, 7300, 1, -6242>>,
      <<7301, 7301, 1, -6243>>, <<7302, 7302, 1, -6236>>,
      <<7303, 7303, 1, -6181>>, <<7304, 7304, 1, 35266>>,
      <<7545, 7545, 1, 35332>>, <<7549, 7549, 1, 3814>>,
      <<7566, 7566, 1, 35384>>, <<7681, 7829, 2, -1>>,
      <<7835, 7835, 1, -59>>, <<7841, 7935, 2, -1>>, <<7936, 7943, 1, 8>>,
      <<7952, 7957, 1, 8>>, <<7968, 7975, 1, 8>>, <<7984, 7991, 1, 8>>,
      <<8000, 8005, 1, 8>>, <<8017, 8023, 2, 8>>, <<8032, 8039, 1, 8>>,
      <<8048, 8049, 1, 74>>, <<8050, 8053, 1, 86>>, <<8054, 8055, 1, 100>>,
      <<8056, 8057, 1, 128>>, <<8058, 8059, 1, 112>>,
      <<8060, 8061, 1, 126>>, <<8112, 8113, 1, 8>>,
      <<8126, 8126, 1, -7205>>, <<8144, 8145, 1, 8>>, <<8160, 8161, 1, 8>>,
      <<8165, 8165, 1, 7>>, <<8526, 8526, 1, -28>>, <<8560, 8575, 1, -16>>,
      <<8580, 8580, 1, -1>>, <<9424, 9449, 1, -26>>,
      <<11312, 11359, 1, -48>>, <<11361, 11361, 1, -1>>,
      <<11365, 11365, 1, -10795>>, <<11366, 11366, 1, -10792>>,
      <<11368, 11372, 2, -1>>, <<11379, 11379, 1, -1>>,
      <<11382, 11382, 1, -1>>, <<11393, 11491, 2, -1>>,
      <<11500, 11502, 2, -1>>, <<11507, 11507, 1, -1>>,
      <<11520, 11557, 1, -7264>>, <<11559, 11559, 1, -7264>>,
      <<11565, 11565, 1, -7264>>, <<42561, 42605, 2, -1>>,
      <<42625, 42651, 2, -1>>, <<42787, 42799, 2, -1>>,
      <<42803, 42863, 2, -1>>, <<42874, 42876, 2, -1>>,
      <<42879, 42887, 2, -1>>, <<42892, 42892, 1, -1>>,
      <<42897, 42899, 2, -1>>, <<42900, 42900, 1, 48>>,
      <<42903, 42921, 2, -1>>, <<42933, 42947, 2, -1>>,
      <<42952, 42954, 2, -1>>, <<42961, 42961, 1, -1>>,
      <<42967, 42969, 2, -1>>, <<42998, 42998, 1, -1>>,
      <<43859, 43859, 1, -928>>, <<43888, 43967, 1, -38864>>,
      <<65345, 65370, 1, -32>>, <<66600, 66639, 1, -40>>,
      <<66776, 66811, 1, -40>>, <<66967, 67003, 2, -39>>,
      <<66968, 66976, 2, -39>>, <<66980, 66992, 2, -39>>,
      <<66996, 67000, 2, -39>>, <<67004, 67004, 1, -39>>,
      <<68800, 68850, 1, -64>>, <<71872, 71903, 1, -32>>,
      <<93792, 93823, 1, -32>>, <<125218, 125251, 1, -34>> >>

\* str.upper of the characters whose upper case is more than one
\* character: <<code point, the code points of its upper case>>
UpperSpecial ==
   <<
      <<223, <<83, 83>>>>, <<329, <<700, 78>>>>, <<496, <<74, 780>>>>,
      <<912, <<921, 776, 769>>>>, <<944, <<933, 776, 769>>>>,
      <<1415, <<1333, 1362>>>>, <<7830, <<72, 817>>>>,
      <<7831, <<84, 776>>>>, <<7832, <<87, 778>>>>, <<7833, <<89, 778>>>>,
      <<7834, <<65, 702>>>>, <<8016, <<933, 787>>>>,
      <<8018, <<933, 787, 768>>>>, <<8020, <<933, 787, 769>>>>,
      <<8022, <<933, 787, 834>>>>, <<8064, <<7944, 921>>>>,
      <<8065, <<7945, 921>>>>, <<8066, <<7946, 921>>>>,
      <<8067, <<7947, 921>>>>, <<8068, <<7948, 921>>>>,
      <<8069, <<7949, 921>>>>, <<8070, <<7950, 921>>>>,
      <<8071, <<7951, 921>>>>, <<8072, <<7944, 921>>>>,
      <<8073, <<7945, 921>>>>, <<8074, <<7946, 921>>>>,
      <<8075, <<7947, 921>>>>, <<8076, <<7948, 921>>>>,
      <<8077, <<7949, 921>>>>, <<8078, <<7950, 921>>>>,
      <<8079, <<7951, 921>>>>, <<8080, <<7976, 921>>>>,
      <<8081, <<7977, 921>>>>, <<8082, <<7978, 921>>>>,
      <<8083, <<7979, 921>>>>, <<8084, <<7980, 921>>>>,
      <<8085, <<7981, 921>>>>, <<8086, <<7982, 921>>>>,
      <<8087, <<7983, 921>>>>, <<8088, <<7976, 921>>>>,
      <<8089, <<7977, 921>>>>, <<8090, <<7978, 921>>>>,
      <<8091, <<7979, 921>>>>, <<8092, <<7980, 921>>>>,
      <<8093, <<7981, 921>>>>, <<8094, <<7982, 921>>>>,
      <<8095, <<7983, 921>>>>, <<8096, <<8040, 921>>>>,
      <<8097, <<8041, 921>>>>, <<8098, <<8042, 921>>>>,
      <<8099, <<8043, 921>>>>, <<8100, <<8044, 921>>>>,
      <<8101, <<8045, 921>>>>, <<8102, <<8046, 921>>>>,
      <<8103, <<8047, 921>>>>, <<8104, <<8040, 921>>>>,
      <<8105, <<8041, 921>>>>, <<8106, <<8042, 921>>>>,
      <<8107, <<8043, 921>>>>, <<8108, <<8044, 921>>>>,
      <<8109, <<8045, 921>>>>, <<8110, <<8046, 921>>>>,
      <<8111, <<8047, 921>>>>, <<8114, <<8122, 921>>>>,
      <<8115, <<913, 921>>>>, <<8116, <<902, 921>>>>,
      <<8118, <<913, 834>>>>, <<8119, <<913, 834, 921>>>>,
      <<8124, <<913, 921>>>>, <<8130, <<8138, 921>>>>,
      <<8131, <<919, 921>>>>, <<8132, <<905, 921>>>>,
      <<8134, <<919, 834>>>>, <<8135, <<919, 834, 921>>>>,
      <<8140, <<919, 921>>>>, <<8146, <<921, 776, 768>>>>,
      <<8147, <<921, 776, 769>>>>, <<8150, <<921, 834>>>>,
      <<8151, <<921, 776, 834>>>>, <<8162, <<933, 776, 768>>>>,
      <<8163, <<933, 776, 769>>>>, <<8164, <<929, 787>>>>,
      <<8166, <<933, 834>>>>, <<8167, <<933, 776, 834>>>>,
      <<8178, <<8186, 921>>>>, <<8179, <<937, 921>>>>,
      <<8180, <<911, 921>>>>, <<8182, <<937, 834>>>>,
      <<8183, <<937, 834, 921>>>>, <<8188, <<937, 921>>>>,
      <<64256, <<70, 70>>>>, <<64257, <<70, 73>>>>, <<64258, <<70, 76>>>>,
      <<64259, <<70, 70, 73>>>>, <<64260, <<70, 70, 76>>>>,
      <<64261, <<83, 84>>>>, <<64262, <<83, 84>>>>,
      <<64275, <<1348, 1350>>>>, <<64276, <<1348, 1333>>>>,
      <<64277, <<1348, 1339>>>>, <<64278, <<1358, 1350>>>>,
      <<64279, <<1348, 1341>>>> >>

\* the code points above U+007F of the characters that are not printable
\* (str.isprintable is False), as ranges <<first, last>>
NonPrintable ==
   <<
      <<128, 160>>, <<173, 173>>, <<888, 889>>, <<896, 899>>, <<907, 907>>,
      <<909, 909>>, <<930, 930>>, <<1328, 1328>>, <<1367, 1368>>,
      <<1419, 1420>>, <<1424, 1424>>, <<1480, 1487>>, <<1515, 1518>>,
      <<1525, 1541>>, <<1564, 1564>>, <<1757, 1757>>, <<1806, 1807>>,
      <<1867, 1868>>, <<1970, 1983>>, <<2043, 2044>>, <<2094, 2095>>,
      <<2111, 2111>>, <<2140, 2141>>, <<2143, 2143>>, <<2155, 2159>>,
      <<2191, 2199>>, <<2274, 2274>>, <<2436, 2436>>, <<2445, 2446>>,
      <<2449, 2450>>, <<2473, 2473>>, <<2481, 2481>>, <<2483, 2485>>,
      <<2490, 2491>>, <<2501, 2502>>, <<2505, 2506>>, <<2511, 2518>>,
      <<2520, 2523>>, <<2526, 2526>>, <<2532, 2533>>, <<2559, 2560>>,
      <<2564, 2564>>, <<2571, 2574>>, <<2577, 2578>>, <<2601, 2601>>,
      <<2609, 2609>>, <<2612, 2612>>, <<2615, 2615>>, <<2618, 2619>>,
      <<2621, 2621>>, <<2627, 2630>>, <<2633, 2634>>, <<2638, 2640>>,
      <<2642, 2648>>, <<2653, 2653>>, <<2655, 2661>>, <<2679, 2688>>,
      <<2692, 2692>>, <<2702, 2702>>, <<2706, 2706>>, <<2729, 2729>>,
      <<2737, 2737>>, <<2740, 2740>>, <<2746, 2747>>, <<2758, 2758>>,
      <<2762, 2762>>, <<2766, 2767>>, <<2769, 2783>>, <<2788, 2789>>,
      <<2802, 2808>>, <<2816, 2816>>, <<2820, 2820>>, <<2829, 2830>>,
      <<2833, 2834>>, <<2857, 2857>>, <<2865, 2865>>, <<2868, 2868>>,
      <<2874, 2875>>, <<2885, 2886>>, <<2889, 2890>>, <<2894, 2900>>,
      <<2904, 2907>>, <<2910, 2910>>, <<2916, 2917>>, <<2936, 2945>>,
      <<2948, 2948>>, <<2955, 2957>>, <<2961, 2961>>, <<2966, 2968>>,
      <<2971, 2971>>, <<2973, 2973>>, <<2976, 2978>>, <<2981, 2983>>,
      <<2987, 2989>>, <<3002, 3005>>, <<3011, 3013>>, <<3017, 3017>>,
      <<3022, 3023>>, <<3025, 3030>>, <<3032, 3045>>, <<3067, 3071>>,
      <<3085, 3085>>, <<3089, 3089>>, <<3113, 3113>>, <<3130, 3131>>,
      <<3141, 3141>>, <<3145, 3145>>, <<3150, 3156>>, <<3159, 3159>>,
      <<3163, 3164>>, <<3166, 3167>>, <<3172, 3173>>, <<3184, 3190>>,
      <<3213, 3213>>, <<3217, 3217>>, <<3241, 3241>>, <<3252, 3252>>,
      <<3258, 3259>>, <<3269, 3269>>, <<3273, 3273>>, <<3278, 3284>>,
      <<3287, 3292>>, <<3295, 3295>>, <<3300, 3301>>, <<3312, 3312>>,
      <<3315, 3327>>, <<3341, 3341>>, <<3345, 3345>>, <<3397, 3397>>,
      <<3401, 3401>>, <<3408, 3411>>, <<3428, 3429>>, <<3456, 3456>>,
      <<3460, 3460>>, <<3479, 3481>>, <<3506, 3506>>, <<3516, 3516>>,
      <<3518, 3519>>, <<3527, 3529>>, <<3531, 3534>>, <<3541, 3541>>,
      <<3543, 3543>>, <<3552, 3557>>, <<3568, 3569>>, <<3573, 3584>>,
      <<3643, 3646>>, <<3676, 3712>>, <<3715, 3715>>, <<3717, 3717>>,
      <<3723, 3723>>, <<3748, 3748>>, <<3750, 3750>>, <<3774, 3775>>,
      <<3781, 3781>>, <<3783, 3783>>, <<3790, 3791>>, <<3802, 3803>>,
      <<3808, 3839>>, <<3912, 3912>>, <<3949, 3952>>, <<3992, 3992>>,
      <<4029, 4029>>, <<4045, 4045>>, <<4059, 4095>>, <<4294, 4294>>,
      <<4296, 4300>>, <<4302, 4303>>, <<4681, 4681>>, <<4686, 4687>>,
      <<4695, 4695>>, <<4697, 4697>>, <<4702, 4703>>, <<4745, 4745>>,
      <<4750, 4751>>, <<4785, 4785>>, <<4790, 4791>>, <<4799, 4799>>,
      <<4801, 4801>>, <<4806, 4807>>, <<4823, 4823>>, <<4881, 4881>>,
      <<4886, 4887>>, <<4955, 4956>>, <<4989, 4991>>, <<5018, 5023>>,
      <<5110, 5111>>, <<5118, 5119>>, <<5760, 5760>>, <<5789, 5791>>,
      <<5881, 5887>>, <<5910, 5918>>, <<5943, 5951>>, <<5972, 5983>>,
      <<5997, 5997>>, <<6001, 6001>>, <<6004, 6015>>, <<6110, 6111>>,
      <<6122, 6127>>, <<6138, 6143>>, <<6158, 6158>>, <<6170, 6175>>,
      <<6265, 6271>>, <<6315, 6319>>, <<6390, 6399>>, <<6431, 6431>>,
      <<6444, 6447>>, <<6460, 6463>>, <<6465, 6467>>, <<6510, 6511>>,
      <<6517, 6527>>, <<6572, 6575>>, <<6602, 6607>>, <<6619, 6621>>,
      <<6684, 6685>>, <<6751, 6751>>, <<6781, 6782>>, <<6794, 6799>>,
      <<6810, 6815>>, <<6830, 6831>>, <<6863, 6911>>, <<6989, 6991>>,
      <<7039, 7039>>, <<7156, 7163>>, <<7224, 7226>>, <<7242, 7244>>,
      <<7305, 7311>>, <<7355, 7356>>, <<7368, 7375>>, <<7419, 7423>>,
      <<7958, 7959>>, <<7966, 7967>>, <<8006, 8007>>, <<8014, 8015>>,
      <<8024, 8024>>, <<8026, 8026>>, <<8028, 8028>>, <<8030, 8030>>,
      <<8062, 8063>>, <<8117, 8117>>, <<8133, 8133>>, <<8148, 8149>>,
      <<8156, 8156>>, <<8176, 8177>>, <<8181, 8181>>, <<8191, 8207>>,
      <<8232, 8239>>, <<8287, 8303>>, <<8306, 8307>>, <<8335, 8335>>,
      <<8349, 8351>>, <<8385, 8399>>, <<8433, 8447>>, <<8588, 8591>>,
      <<9255, 9279>>, <<9291, 9311>>, <<11124, 11125>>, <<11158, 11158>>,
      <<11508, 11512>>, <<11558, 11558>>, <<11560, 11564>>,
      <<11566, 11567>>, <<11624, 11630>>, <<11633, 11646>>,
      <<11671, 11679>>, <<11687, 11687>>, <<11695, 11695>>,
      <<11703, 11703>>, <<11711, 11711>>, <<11719, 11719>>,
      <<11727, 11727>>, <<11735, 11735>>, <<11743, 11743>>,
      <<11870, 11903>>, <<11930, 11930>>, <<12020, 12031>>,
      <<12246, 12271>>, <<12284, 12288>>, <<12352, 12352>>,
      <<12439, 12440>>, <<12544, 12548>>, <<12592, 12592>>,
      <<12687, 12687>>, <<12772, 12783>>, <<12831, 12831>>,
      <<42125, 42127>>, <<42183, 42191>>, <<42540, 42559>>,
      <<42744, 42751>>, <<42955, 42959>>, <<42962, 42962>>,
      <<42964, 42964>>, <<42970, 42993>>, <<43053, 43055>>,
      <<43066, 43071>>, <<43128, 43135>>, <<43206, 43213>>,
      <<43226, 43231>>, <<43348, 43358>>, <<43389, 43391>>,
      <<43470, 43470>>, <<43482, 43485>>, <<43519, 43519>>,
      <<43575, 43583>>, <<43598, 43599>>, <<43610, 43611>>,
      <<43715, 43738>>, <<43767, 43776>>, <<43783, 43784>>,
      <<43791, 43792>>, <<43799, 43807>>, <<43815, 43815>>,
      <<43823, 43823>>, <<43884, 43887>>, <<44014, 44015>>,
      <<44026, 44031>>, <<55204, 55215>>, <<55239, 55242>>,
      <<55292, 63743>>, <<64110, 64111>>, <<64218, 64255>>,
      <<64263, 64274>>, <<64280, 64284>>, <<64311, 64311>>,
      <<64317, 64317>>, <<64319, 64319>>, <<64322, 64322>>,
      <<64325, 64325>>, <<64451, 64466>>, <<64912, 64913>>,
      <<64968, 64974>>, <<64976, 65007>>, <<65050, 65055>>,
      <<65107, 65107>>, <<65127, 65127>>, <<65132, 65135>>,
      <<65141, 65141>>, <<65277, 65280>>, <<65471, 65473>>,
      <<65480, 65481>>, <<65488, 65489>>, <<65496, 65497>>,
      <<65501, 65503>>, <<65511, 65511>>, <<65519, 65531>>,
      <<65534, 65535>>, <<65548, 65548>>, <<65575, 65575>>,
      <<65595, 65595>>, <<65598, 65598>>, <<65614, 65615>>,
      <<65630, 65663>>, <<65787, 65791>>, <<65795, 65798>>,
      <<65844, 65846>>, <<65935, 65935>>, <<65949, 65951>>,
      <<65953, 65999>>, <<66046, 66175>>, <<66205, 66207>>,
      <<66257, 66271>>, <<66300, 66303>>, <<66340, 66348>>,
      <<66379, 66383>>, <<66427, 66431>>, <<66462, 66462>>,
      <<66500, 66503>>, <<66518, 66559>>, <<66718, 66719>>,
      <<66730, 66735>>, <<66772, 66775>>, <<66812, 66815>>,
      <<66856, 66863>>, <<66916, 66926>>, <<66939, 66939>>,
      <<66955, 66955>>, <<66963, 66963>>, <<66966, 66966>>,
      <<66978, 66978>>, <<66994, 66994>>, <<67002, 67002>>,
      <<67005, 67071>>, <<67383, 67391>>, <<67414, 67423>>,
      <<67432, 67455>>, <<67462, 67462>>, <<67505, 67505>>,
      <<67515, 67583>>, <<67590, 67591>>, <<67593, 67593>>,
      <<67638, 67638>>, <<67641, 67643>>, <<67645, 67646>>,
      <<67670, 67670>>, <<67743, 67750>>, <<67760, 67807>>,
      <<67827, 67827>>, <<67830, 67834>>, <<67868, 67870>>,
      <<67898, 67902>>, <<67904, 67967>>, <<68024, 68027>>,
      <<68048, 68049>>, <<68100, 68100>>, <<68103, 68107>>,
      <<68116, 68116>>, <<68120, 68120>>, <<68150, 68151>>,
      <<68155, 68158>>, <<68169, 68175>>, <<68185, 68191>>,
      <<68256, 68287>>, <<68327, 68330>>, <<68343, 68351>>,
      <<68406, 68408>>, <<68438, 68439>>, <<68467, 68471>>,
      <<68498, 68504>>, <<68509, 68520>>, <<68528, 68607>>,
      <<68681, 68735>>, <<68787, 68799>>, <<68851, 68857>>,
      <<68904, 68911>>, <<68922, 69215>>, <<69247, 69247>>,
      <<69290, 69290>>, <<69294, 69295>>, <<69298, 69375>>,
      <<69416, 69423>>, <<69466, 69487>>, <<69514, 69551>>,
      <<69580, 69599>>, <<69623, 69631>>, <<69710, 69713>>,
      <<69750, 69758>>, <<69821, 69821>>, <<69827, 69839>>,
      <<69865, 69871>>, <<69882, 69887>>, <<69941, 69941>>,
      <<69960, 69967>>, <<70007, 70015>>, <<70112, 70112>>,
      <<70133, 70143>>, <<70162, 70162>>, <<70207, 70271>>,
      <<70279, 70279>>, <<70281, 70281>>, <<70286, 70286>>,
      <<70302, 70302>>, <<70314, 70319>>, <<70379, 70383>>,
      <<70394, 70399>>, <<70404, 70404>>, <<70413, 70414>>,
      <<70417, 70418>>, <<70441, 70441>>, <<70449, 70449>>,
      <<70452, 70452>>, <<70458, 70458>>, <<70469, 70470>>,
      <<70473, 70474>>, <<70478, 70479>>, <<70481, 70486>>,
      <<70488, 70492>>, <<70500, 70501>>, <<70509, 70511>>,
      <<70517, 70655>>, <<70748, 70748>>, <<70754, 70783>>,
      <<70856, 70863>>, <<70874, 71039>>, <<71094, 71095>>,
      <<71134, 71167>>, <<71237, 71247>>, <<71258, 71263>>,
      <<71277, 71295>>, <<71354, 71359>>, <<71370, 71423>>,
      <<71451, 71452>>, <<71468, 71471>>, <<71495, 71679>>,
      <<71740, 71839>>, <<71923, 71934>>, <<71943, 71944>>,
      <<71946, 71947>>, <<71956, 71956>>, <<71959, 71959>>,
      <<71990, 71990>>, <<71993, 71994>>, <<72007, 72015>>,
      <<72026, 72095>>, <<72104, 72105>>, <<72152, 72153>>,
      <<72165, 72191>>, <<72264, 72271>>, <<72355, 72367>>,
      <<72441, 72703>>, <<72713, 72713>>, <<72759, 72759>>,
      <<72774, 72783>>, <<72813, 72815>>, <<72848, 72849>>,
      <<72872, 72872>>, <<72887, 72959>>, <<72967, 72967>>,
      <<72970, 72970>>, <<73015, 73017>>, <<73019, 73019>>,
      <<73022, 73022>>, <<73032, 73039>>, <<73050, 73055>>,
      <<73062, 73062>>, <<73065, 73065>>, <<73103, 73103>>,
      <<73106, 73106>>, <<73113, 73119>>, <<73130, 73439>>,
      <<73465, 73647>>, <<73649, 73663>>, <<73714, 73726>>,
      <<74650, 74751>>, <<74863, 74863>>, <<74869, 74879>>,
      <<75076, 77711>>, <<77811, 77823>>, <<78895, 82943>>,
      <<83527, 92159>>, <<92729, 92735>>, <<92767, 92767>>,
      <<92778, 92781>>, <<92863, 92863>>, <<92874, 92879>>,
      <<92910, 92911>>, <<92918, 92927>>, <<92998, 93007>>,
      <<93018, 93018>>, <<93026, 93026>>, <<93048, 93052>>,
      <<93072, 93759>>, <<93851, 93951>>, <<94027, 94030>>,
      <<94088, 94094>>, <<94112, 94175>>, <<94181, 94191>>,
      <<94194, 94207>>, <<100344, 100351>>, <<101590, 101631>>,
      <<101641, 110575>>, <<110580, 110580>>, <<110588, 110588>>,
      <<110591, 110591>>, <<110883, 110927>>, <<110931, 110947>>,
      <<110952, 110959>>, <<111356, 113663>>, <<113771, 113775>>,
      <<113789, 113791>>, <<113801, 113807>>, <<113818, 113819>>,
      <<113824, 118527>>, <<118574, 118575>>, <<118599, 118607>>,
      <<118724, 118783>>, <<119030, 119039>>, <<119079, 119080>>,
      <<119155, 119162>>, <<119275, 119295>>, <<119366, 119519>>,
      <<119540, 119551>>, <<119639, 119647>>, <<119673, 119807>>,
      <<119893, 119893>>, <<119965, 119965>>, <<119968, 119969>>,
      <<119971, 119972>>, <<119975, 119976>>, <<119981, 119981>>,
      <<119994, 119994>>, <<119996, 119996>>, <<120004, 120004>>,
      <<120070, 120070>>, <<120075, 120076>>, <<120085, 120085>>,
      <<120093, 120093>>, <<120122, 120122>>, <<120127, 120127>>,
      <<120133, 120133>>, <<120135, 120137>>, <<120145, 120145>>,
      <<120486, 120487>>, <<120780, 120781>>, <<121484, 121498>>,
      <<121504, 121504>>, <<121520, 122623>>, <<122655, 122879>>,
      <<122887, 122887>>, <<122905, 122906>>, <<122914, 122914>>,
      <<122917, 122917>>, <<122923, 123135>>, <<123181, 123183>>,
      <<123198, 123199>>, <<123210, 123213>>, <<123216, 123535>>,
      <<123567, 123583>>, <<123642, 123646>>, <<123648, 124895>>,
      <<124903, 124903>>, <<124908, 124908>>, <<124911, 124911>>,
      <<124927, 124927>>, <<125125, 125126>>, <<125143, 125183>>,
      <<125260, 125263>>, <<125274, 125277>>, <<125280, 126064>>,
      <<126133, 126208>>, <<126270, 126463>>, <<126468, 126468>>,
      <<126496, 126496>>, <<126499, 126499>>, <<126501, 126502>>,
      <<126504, 126504>>, <<126515, 126515>>, <<126520, 126520>>,
      <<126522, 126522>>, <<126524, 126529>>, <<126531, 126534>>,
      <<126536, 126536>>, <<126538, 126538>>, <<126540, 126540>>,
      <<126544, 126544>>, <<126547, 126547>>, <<126549, 126550>>,
      <<126552, 126552>>, <<126554, 126554>>, <<126556, 126556>>,
      <<126558, 126558>>, <<126560, 126560>>, <<126563, 126563>>,
      <<126565, 126566>>, <<126571, 126571>>, <<126579, 126579>>,
      <<126584, 126584>>, <<126589, 126589>>, <<126591, 126591>>,
      <<126602, 126602>>, <<126620, 126624>>, <<126628, 126628>>,
      <<126634, 126634>>, <<126652, 126703>>, <<126706, 126975>>,
      <<127020, 127023>>, <<127124, 127135>>, <<127151, 127152>>,
      <<127168, 127168>>, <<127184, 127184>>, <<127222, 127231>>,
      <<127406, 127461>>, <<127491, 127503>>, <<127548, 127551>>,
      <<127561, 127567>>, <<127570, 127583>>, <<127590, 127743>>,
      <<128728, 128732>>, <<128749, 128751>>, <<128765, 128767>>,
      <<128884, 128895>>, <<128985, 128991>>, <<129004, 129007>>,
      <<129009, 129023>>, <<129036, 129039>>, <<129096, 129103>>,
      <<129114, 129119>>, <<129160, 129167>>, <<129198, 129199>>,
      <<129202, 129279>>, <<129620, 129631>>, <<129646, 129647>>,
      <<129653, 129655>>, <<129661, 129663>>, <<129671, 129679>>,
      <<129709, 129711>>, <<129723, 129727>>, <<129734, 129743>>,
      <<129754, 129759>>, <<129768, 129775>>, <<129783, 129791>>,
      <<129939, 129939>>, <<129995, 130031>>, <<130042, 131071>>,
      <<173792, 173823>>, <<177977, 177983>>, <<178206, 178207>>,
      <<183970, 183983>>, <<191457, 194559>>, <<195102, 196607>>,
      <<201547, 917759>>, <<918000, 1114111>> >>

\* str.isprintable of one character
IsPrintable(n) ==
    IF n < 128 THEN 32 <= n /\ n <= 126
    ELSE ~\E i \in 1..Len(NonPrintable) :
              NonPrintable[i][1] <= n /\ n <= NonPrintable[i][2]

InRange(n, r) == r[1] <= n /\ n <= r[2] /\ (n - r[1]) % r[3] = 0

\* the code points of str.upper of the character of code point n
UpperCodes(n) ==
    IF n < 128 THEN (IF 97 <= n /\ n <= 122 THEN <<n - 32>> ELSE <<n>>)
    ELSE IF \E i \in 1..Len(UpperSpecial) : UpperSpecial[i][1] = n
    THEN UpperSpecial[CHOOSE i \in 1..Len(UpperSpecial) :
                          UpperSpecial[i][1] = n][2]
    ELSE IF \E i \in 1..Len(UpperRanges) : InRange(n, UpperRanges[i])
    THEN <<n + UpperRanges[CHOOSE i \in 1..Len(UpperRanges) :
                               InRange(n, UpperRanges[i])][4]>>
    ELSE <<n>>

\* str.upper of one character, which may be more than one character: the
\* long s gives "S", the sharp s gives "SS"
UpperChar(c) ==
    LET u == UpperCodes(Ord(c)) IN [k \in 1..Len(u) |-> Chr(u[k])]

\* an upper that leaves every character as it is
UpperIdentity(s) == s

\* str.upper
RECURSIVE Upper(_)
Upper(s) == IF s = <<>> THEN <<>> ELSE UpperChar(Head(s)) \o Upper(Tail(s))

RECURSIVE LStrip(_)
LStrip(s) ==
    IF s # <<>> /\ Head(s) \in Whitespace THEN LStrip(Tail(s)) ELSE s

RECURSIVE RStrip(_)
RStrip(s) ==
    IF s # <<>> /\ s[Len(s)] \in Whitespace
    THEN RStrip(SubSeq(s, 1, Len(s) - 1))
    ELSE s

\* a strip that leaves the trailing whitespace
StripLeftOnly(s) == LStrip(s)

\* str.strip()
Strip(s) == RStrip(LStrip(s))

\* a startswith that ignores letter case
StartsWithAnyCase(s, p) ==
    Len(s) >= Len(p) /\ Upper(SubSeq(s, 1, Len(p))) = Upper(p)

\* str.startswith
StartsWith(s, p) == Len(s) >= Len(p) /\ SubSeq(s, 1, Len(p)) = p

\* the index of the first whitespace character of s, Len(s) + 1 if none
FirstWs(s) ==
    IF \E i \in 1..Len(s) : s[i] \in Whitespace
    THEN CHOOSE i \in 1..Len(s) :
            s[i] \in Whitespace /\ \A j \in 1..(i - 1) : s[j] \notin Whitespace
    ELSE Len(s) + 1

\* a split that ignores maxsplit and splits at every run of whitespace
RECURSIVE SplitAll(_, _)
SplitAll(s, maxsplit) ==
    LET t == LStrip(s) IN
    IF t = <<>> THEN <<>>
    ELSE <<SubSeq(t, 1, FirstWs(t) - 1)>>
            \o SplitAll(SubSeq(t, FirstWs(t), Len(t)), maxsplit)

\* str.split(maxsplit=n): fields delimited by runs of whitespace; once n
\* splits are made the rest, less its leading whitespace, is the last field
RECURSIVE Split(_, _)
Split(s, maxsplit) ==
    LET t == LStrip(s) IN
    IF t = <<>> THEN <<>>
    ELSE IF maxsplit = 0 THEN <<t>>
    ELSE <<SubSeq(t, 1, FirstWs(t) - 1)>>
            \o Split(SubSeq(t, FirstWs(t), Len(t)), maxsplit - 1)

ANSWER == <<"A", "N", "S", "W", "E", "R", ":">>
CALL == <<"C", "A", "L", "L", " ">>

\* KGAgent._parse_llm_response
ParseLlmResponse(response) ==
    LET text == Strip(response) IN
    IF StartsWith(Upper(text), ANSWER)
    THEN [action |-> "answer",
          payload |-> Strip(SubSeq(text, Len(ANSWER) + 1, Len(text)))]
    ELSE IF StartsWith(text, CALL)
    THEN LET parts == Split(text, 2) IN
         [action |-> "call_tool",
          payload |-> [tool |-> IF Len(parts) > 1 THEN parts[2] ELSE <<>>,
                       args |-> IF Len(parts) > 2 THEN parts[3] ELSE <<>>]]
    ELSE [action |-> "run_program", payload |-> text]

----------------------------------------------------------------------------
(* Memory *)

\* an add that inserts at the front
MemoryAddFront(st, ref) == <<ref>> \o st

\* an add that skips a dict the store already holds
MemoryAddUnique(st, ref) ==
    IF \E i \in 1..Len(st) : st[i] = ref THEN st ELSE Append(st, ref)

\* Memory.add: self._store.append(item); item is the reference to the dict
MemoryAdd(st, ref) == Append(st, ref)

\* a filter on the value under the key, s.get(key), not on the key
HasKeyTruthy(hp, ref, key) == key \in DOMAIN hp[ref] /\ hp[ref][key] # 0

\* key in s, for the dict s
HasKey(hp, ref, key) == key \in DOMAIN hp[ref]

\* Memory.query: list(self._store) if key is None, else the list
\* comprehension over the store with the str key; either is a new list of
\* the same references
MemoryQuery(st, hp, key) ==
    IF key = None
    THEN st
    ELSE SelectSeq(st, LAMBDA ref : HasKey(hp, ref, key.str))

\* the dicts a list of references shows to whoever reads it
Deref(hp, refs) == [i \in 1..Len(refs) |-> hp[refs[i]]]

----------------------------------------------------------------------------
(* Toolbox, and the callables registered in it *)

\* names a caller registers or the model asks for
ToolNames == {<<"t">>, <<"u">>}

\* the callables registered: the example's stub, and a tool that raises: a
\* RuntimeError when it is given arguments, and a KeyboardInterrupt, which
\* is a BaseException and no Exception, when the argument string is empty
Callables == {"retrieve_facts_stub", "raising_tool"}

\* An exception is its message and the classes of its type, the type
\* first: type(e).__mro__.
KeyErrorMro ==
    <<"KeyError", "LookupError", "Exception", "BaseException", "object">>
RuntimeErrorMro == <<"RuntimeError", "Exception", "BaseException", "object">>
KeyboardInterruptMro == <<"KeyboardInterrupt", "BaseException", "object">>

\* isinstance(e, cls)
IsInstance(e, cls) == \E i \in 1..Len(e.mro) : e.mro[i] = cls

\* tool(args): what the callable does with the raw argument string
Invoke(fn, args) ==
    CASE fn = "retrieve_facts_stub" ->
            [kind |-> "return",
             value |-> [query |-> args,
                        facts |-> <<"Tom Hanks -> actor",
                                    "Tom Hanks -> born_in Concord">>]]
      [] fn = "raising_tool" /\ args # <<>> ->
            [kind |-> "raise",
             value |-> [mro |-> RuntimeErrorMro,
                        msg |-> <<"b", "o", "o", "m">>]]
      [] OTHER ->
            [kind |-> "raise",
             value |-> [mro |-> KeyboardInterruptMro,
                        msg |-> <<"s", "t", "o", "p">>]]

\* a register that keeps the binding a name already has
ToolboxRegisterKeepFirst(t, name, fn) ==
    [n \in DOMAIN t \cup {name} |-> IF n = name /\ n \notin DOMAIN t
                                    THEN fn ELSE t[n]]

\* Toolbox.register: self._tools[name] = fn
ToolboxRegister(t, name, fn) ==
    [n \in DOMAIN t \cup {name} |-> IF n = name THEN fn ELSE t[n]]

\* a call that returns None for a name that is not registered
ToolboxCallLenient(t, name, args) ==
    IF name \notin DOMAIN t
    THEN [kind |-> "return", value |-> [none |-> TRUE], calls |-> <<>>]
    ELSE [kind |-> Invoke(t[name], args).kind,
          value |-> Invoke(t[name], args).value,
          calls |-> <<[callee |-> t[name], args |-> args]>>]

\* the message of the KeyError of Toolbox.call: f"Tool '{name}' not registered"
NotRegistered(name) ==
    <<"T", "o", "o", "l", " ", "'">> \o name
        \o <<"'", " ", "n", "o", "t", " ", "r", "e", "g", "i", "s", "t", "e",
             "r", "e", "d">>

\* Toolbox.call: what it returns or raises, and the invocations it makes
ToolboxCall(t, name, args) ==
    IF name \notin DOMAIN t
    THEN [kind |-> "raise",
          value |-> [mro |-> KeyErrorMro,
                     msg |-> NotRegistered(name)],
          calls |-> <<>>]
    ELSE [kind |-> Invoke(t[name], args).kind,
          value |-> Invoke(t[name], args).value,
          calls |-> <<[callee |-> t[name], args |-> args]>>]

\* the characters of a string, one by one
Spell(str) == [i \in 1..Len(str) |-> SubSeq(str, i, i)]

\* the characters repr writes for one character of a string quoted with q:
\* the backslash and the quote are escaped, the tab, the line feed and the
\* carriage return have their short escapes, any other character that is
\* not printable is written as its escape, every other character as itself
ReprChar(c, q) ==
    CASE c = "\\" -> <<"\\", "\\">>
      [] c = q -> <<"\\", q>>
      [] c = "\t" -> <<"\\", "t">>
      [] c = "\n" -> <<"\\", "n">>
      [] c = "\r" -> <<"\\", "r">>
      [] OTHER -> IF IsPrintable(Ord(c)) THEN <<c>>
                  ELSE Spell(Escape(Ord(c)))

RECURSIVE ReprChars(_, _)
ReprChars(s, q) ==
    IF s = <<>> THEN <<>> ELSE ReprChar(Head(s), q) \o ReprChars(Tail(s), q)

\* repr of a str: in single quotes, or in double quotes when the string
\* holds a single quote and no double quote
Repr(s) ==
    LET has(c) == \E i \in 1..Len(s) : s[i] = c
        q == IF has("'") /\ ~has("\"") THEN "\"" ELSE "'"
    IN  <<q>> \o ReprChars(s, q) \o <<q>>

\* str(e): the message of the exception; for a KeyError the repr of its
\* argument
StrExc(e) == IF IsInstance(e, "KeyError") THEN Repr(e.msg) ELSE e.msg

----------------------------------------------------------------------------
(* KGExecutor *)

\* Python's None as a result value
PyNone == None

\* the executors an agent is constructed with: the repository's KGExecutor
\* and one whose execute_program raises
Executors == {"KGExecutor", "RaisingExecutor"}

\* executor.execute_program(program)
ExecuteProgram(ex, program) ==
    IF ex = "KGExecutor"
    THEN [kind |-> "return", value |-> PyNone]
    ELSE [kind |-> "raise",
          value |-> [mro |-> RuntimeErrorMro,
                     msg |-> <<"k", "g", " ", "d", "o", "w", "n">>]]

----------------------------------------------------------------------------
(* KGAgent *)

\* what the language model answers: an answer, a call of tool t with
\* arguments that hold a space, a call of tool u without arguments, and
\* program text
Responses ==
    { <<"A", "N", "S", "W", "E", "R", ":", " ", "d", "e", "m", "o">>,
      <<"C", "A", "L", "L", " ", "t", " ", "x", " ", "y">>,
      <<"C", "A", "L", "L", " ", "u">>,
      <<"R", "U", "N", " ", "p">> }

\* response texts of any shape: leading whitespace, then a start that is
\* or nearly is one of the two prefixes, then a body of up to MaxPieces
\* pieces.  The starts hold "ANSWER:" in upper, lower and mixed case, with
\* the long s and with the sharp s for the s, and without the colon; "CALL"
\* with and without the space, in lower case, and followed by the beginning
\* of a tool name that holds a double quote, a backslash or the character
\* U+0000, which is not printable.
Leads == { <<>>, <<"\r">>, <<"\t", "\n", "\\x0b">> }

Starts ==
    { <<>>,
      <<"A", "N", "S", "W", "E", "R", ":">>,
      <<"a", "n", "s", "w", "e", "r", ":">>,
      <<"A", "n", "S", "w", "E", "r", ":">>,
      <<"a", "n", "\\u017f", "w", "e", "r", ":">>,
      <<"a", "n", "\\xdf", "w", "e", "r", ":">>,
      <<"A", "N", "S", "W", "E", "R">>,
      <<"C", "A", "L", "L", " ">>,
      <<"C", "A", "L", "L">>,
      <<"c", "a", "l", "l", " ">>,
      <<"C", "A", "L", "L", " ", "\"">>,
      <<"C", "A", "L", "L", " ", "\\">>,
      <<"C", "A", "L", "L", " ", "\\x00">> }

Pieces ==
    { <<"C", "A", "L", "L", " ">>, <<" ">>, <<"\r">>, <<"x">>,
      <<"x", " ", " ", "y">> }

RECURSIVE Bodies(_)
Bodies(n) ==
    IF n = 0 THEN { <<>> }
    ELSE Bodies(n - 1) \cup { b \o p : b \in Bodies(n - 1), p \in Pieces }

ParseInputs ==
    { l \o s \o b : l \in Leads, s \in Starts, b \in Bodies(MaxPieces) }

\* the questions a run is asked; Memory and the parser are studied with one
Question == "q1"
Questions == {Question, "q2"}

\* the fixed summary of run
Summary == Spell("Unable to reach final answer within step limit.")

\* a prompt that shows the question and, of the steps, only the last one
FormatPromptLastStep(q, st) ==
    [question |-> q,
     state |-> [steps |-> IF st = <<>> THEN st ELSE <<st[Len(st)]>>,
                memory_summary |-> None]]

\* KGAgent._format_prompt: the f-string shows the question and the state
FormatPrompt(q, st) ==
    [question |-> q, state |-> [steps |-> st, memory_summary |-> None]]

\* nothing returned yet
NoRet == [kind |-> "none", value |-> PyNone]

\* a final_answer record that always says step 0
AnswerRecordStepZero(ans, k) ==
    [type |-> "final_answer", answer |-> ans, step |-> 0]

\* a tool record that carries the number of the next iteration
ToolRecordNextStep(tool_name, out, k) ==
    [type |-> "tool", tool |-> tool_name, out |-> out, step |-> k + 1]

\* the dicts run adds to Memory: lines 195, 208, 215 and 223
AnswerRecord(ans, k) == [type |-> "final_answer", answer |-> ans, step |-> k]
ToolRecord(tool_name, out, k) ==
    [type |-> "tool", tool |-> tool_name, out |-> out, step |-> k]
ProgramRecord(program, out, k) ==
    [type |-> "program", program |-> program, out |-> out, step |-> k]
TimeoutRecord == [type |-> "timeout", summary |-> Summary]

\* self.memory.add(rec) with a dict built at the call
AddFresh(rec) ==
    /\ heap' = Append(heap, rec)
    /\ store' = MemoryAdd(store, Len(heap) + 1)

\* lines 221-224: the summary after the loop
Timeout ==
    /\ AddFresh(TimeoutRecord)
    /\ pc' = "returned"
    /\ ret' = [kind |-> "return", value |-> Summary]

\* an except clause that keeps the exception's type name, not its message
ToolOutTypeName(o) ==
    IF o.kind = "raise" THEN [error |-> <<o.value.mro[1]>>] ELSE o.value

\* line 205, except Exception as e: whether the clause catches what the
\* call raised
Caught(o) == o.kind = "raise" /\ IsInstance(o.value, "Exception")

\* out of a tool step, lines 203-206: the result, or {'error': str(e)} for
\* an exception the clause catches
ToolOut(o) == IF Caught(o) THEN [error |-> StrExc(o.value)] ELSE o.value

\* a last branch that goes on to the next iteration instead of leaving the
\* loop
BreakAsContinue ==
    /\ step' = step + 1
    /\ UNCHANGED <<store, heap, pc, ret, state, callLog>>

\* line 219: break; the loop is left and lines 221-224 follow
Break ==
    /\ Timeout
    /\ UNCHANGED <<step, state, callLog>>

\* an execute_program wrapped in a try/except like the tool call
PropagatesNever(r) == FALSE

\* line 213 is in no try statement: what execute_program raises leaves run
Propagates(r) == r.kind = "raise"

\* lines 193-219: the dispatch on the decision of iteration `step`
Dispatch(decision) ==
    CASE decision.action = "answer" ->
            /\ AddFresh(AnswerRecord(decision.payload, step))
            /\ pc' = "returned"
            /\ ret' = [kind |-> "return", value |-> decision.payload]
            /\ UNCHANGED <<step, state, callLog>>
      [] decision.action = "call_tool" ->
            LET tool_name == decision.payload.tool
                args == decision.payload.args
                o == ToolboxCall(tools, tool_name, args)
            IN  /\ callLog' = callLog \o o.calls
                /\ IF o.kind = "raise" /\ ~Caught(o)
                   THEN /\ pc' = "raised"
                        /\ ret' = [kind |-> "raise", value |-> o.value]
                        /\ UNCHANGED <<store, heap, state, step>>
                   ELSE /\ state' = Append(state, [action |-> "call_tool",
                                                    tool |-> tool_name,
                                                    out |-> ToolOut(o)])
                        /\ AddFresh(ToolRecord(tool_name, ToolOut(o), step))
                        /\ step' = step + 1
                        /\ UNCHANGED <<pc, ret>>
      [] decision.action = "run_program" ->
            LET program == decision.payload
                r == ExecuteProgram(executor, program)
            IN  /\ callLog' = Append(callLog, [callee |-> executor,
                                                args |-> program])
                /\ IF Propagates(r)
                   THEN /\ pc' = "raised"
                        /\ ret' = r
                        /\ UNCHANGED <<store, heap, state, step>>
                   ELSE /\ state' = Append(state, [action |-> "run_program",
                                                    program |-> program,
                                                    out |-> r.value])
                        /\ AddFresh(ProgramRecord(program, r.value, step))
                        /\ step' = step + 1
                        /\ UNCHANGED <<pc, ret>>
      [] OTHER -> Break

\* a loop that stops one iteration early: range(self.max_steps - 1)
LoopStopsEarly(k, n) == k < n - 1

\* a loop that makes one iteration more: range(self.max_steps + 1)
LoopOneMore(k, n) == k <= n

\* a loop whose body runs once before the limit is tested
LoopAtLeastOnce(k, n) == k < n \/ k = 0

\* for step in range(self.max_steps): whether iteration k runs
LoopContinues(k, n) == k < n

\* the room Memory needs for a whole run
RunRoom == (IF max_steps > 0 THEN max_steps ELSE 0) + 1

\* a run that goes on from the state and the step counter of the run before
RunStartKeepsState(q) ==
    /\ pc # "loop"
    /\ Len(store) + RunRoom <= MaxStore
    /\ pc' = "loop"
    /\ ret' = NoRet
    /\ llmLog' = <<>>
    /\ callLog' = <<>>
    /\ runBase' = Len(store)
    /\ lastOp' = [op |-> "run", arg |-> q]
    /\ UNCHANGED <<store, heap, tools, result, executor, max_steps, step,
                   state>>

\* run is called: line 187
RunStart(q) ==
    /\ pc # "loop"
    /\ Len(store) + RunRoom <= MaxStore
    /\ pc' = "loop"
    /\ step' = 0
    /\ state' = <<>>
    /\ ret' = NoRet
    /\ llmLog' = <<>>
    /\ callLog' = <<>>
    /\ runBase' = Len(store)
    /\ lastOp' = [op |-> "run", arg |-> q]
    /\ UNCHANGED <<store, heap, tools, result, executor, max_steps>>

\* one iteration of the loop, lines 188-219, with the decision that
\* self._parse_llm_response(response) gives
RunIterVia(response, decision) ==
    /\ pc = "loop"
    /\ LoopContinues(step, max_steps)
    /\ llmLog' = Append(llmLog, [prompt |-> FormatPrompt(lastOp.arg, state),
                                 metadata |-> [step |-> step],
                                 response |-> response])
    /\ Dispatch(decision)
    /\ UNCHANGED <<tools, result, executor, max_steps, runBase, lastOp>>

\* one iteration of a KGAgent, whose parser is KGAgent._parse_llm_response
RunIter(response) == RunIterVia(response, ParseLlmResponse(response))

\* range(max_steps) is exhausted: lines 221-224
RunExit ==
    /\ pc = "loop"
    /\ ~LoopContinues(step, max_steps)
    /\ Timeout
    /\ UNCHANGED <<tools, result, executor, max_steps, step, state, llmLog,
                   callLog, runBase, lastOp>>

----------------------------------------------------------------------------
(* What a caller does with Memory and Toolbox between runs *)

\* the dicts a caller adds
Items == { [k1 |-> 0], [None |-> 0, step |-> 0] }

\* the str keys a caller asks for; 'None' is one of them
StrKeys == {"k1", "step", "None"}

\* the key arguments of a caller's query: omitted, or a str
Keys == {None} \cup {StrKey(k) : k \in StrKeys}

\* every operation of the caller ends the view on the last run
Caller(op, arg) ==
    /\ pc # "loop"
    /\ pc' = "idle"
    /\ lastOp' = [op |-> op, arg |-> arg]
    /\ UNCHANGED <<executor, max_steps, step, state, llmLog, runBase>>

\* memory.add(item) with a new dict
Add(item) ==
    /\ Caller("add", None)
    /\ Len(store) < MaxStore
    /\ AddFresh(item)
    /\ UNCHANGED <<tools, result, ret, callLog>>

\* memory.add(d) with a dict the caller holds from a query
AddAgain(i) ==
    /\ Caller("add", None)
    /\ Len(store) < MaxStore
    /\ store' = MemoryAdd(store, result[i])
    /\ UNCHANGED <<heap, tools, result, ret, callLog>>

\* result = memory.query(key)
Query(key) ==
    /\ Caller("query", key)
    /\ result' = MemoryQuery(store, heap, key)
    /\ UNCHANGED <<store, heap, tools, ret, callLog>>

\* the caller changes the list it just got, once: result.pop(),
\* result.append(d), result[0] = d
MutateList ==
    /\ Caller("mutate_list", None)
    /\ lastOp.op = "query"
    /\ result # <<>>
    /\ \/ result' = SubSeq(result, 1, Len(result) - 1)
       \/ /\ Len(result) < MaxStore
          /\ result' = Append(result, result[1])
       \/ /\ result[1] # result[Len(result)]
          /\ result' = [result EXCEPT ![1] = result[Len(result)]]
    /\ UNCHANGED <<store, heap, tools, ret, callLog>>

\* d[key] = value on a dict
SetItem(d, key, value) ==
    [k \in DOMAIN d \cup {key} |-> IF k = key THEN value ELSE d[k]]

\* the caller changes a dict it reaches through the list it just got:
\* result[i]["k1"] = 1
MutateRecord(i) ==
    /\ Caller("mutate_record", None)
    /\ lastOp.op \in {"query", "mutate_list"}
    /\ i \in 1..Len(result)
    /\ heap[result[i]] # SetItem(heap[result[i]], "k1", 1)
    /\ heap' = [heap EXCEPT ![result[i]] = SetItem(@, "k1", 1)]
    /\ UNCHANGED <<store, tools, result, ret, callLog>>

\* toolbox.register(name, fn)
Register(name, fn) ==
    /\ Caller("register", None)
    /\ tools' = ToolboxRegister(tools, name, fn)
    /\ UNCHANGED <<store, heap, result, ret, callLog>>

\* toolbox.call(name, args), called by the embedding application
Call(name, args) ==
    /\ Caller("call", None)
    /\ ret' = [kind |-> ToolboxCall(tools, name, args).kind,
               value |-> ToolboxCall(tools, name, args).value]
    /\ callLog' = ToolboxCall(tools, name, args).calls
    /\ UNCHANGED <<store, heap, tools, result>>

----------------------------------------------------------------------------

Init ==
    /\ store = <<>>
    /\ heap = <<>>
    /\ tools = [n \in {} |-> "retrieve_facts_stub"]
    /\ result = <<>>
    /\ executor \in Executors
    /\ max_steps \in -1..MaxSteps
    /\ pc = "idle"
    /\ step = 0
    /\ state = <<>>
    /\ ret = NoRet
    /\ llmLog = <<>>
    /\ callLog = <<>>
    /\ runBase = 0
    /\ lastOp = [op |-> "init", arg |-> None]

Next ==
    \/ \E q \in Questions : RunStart(q)
    \/ \E response \in Responses : RunIter(response)
    \/ RunExit
    \/ \E item \in Items : Add(item)
    \/ \E i \in 1..Len(result) : AddAgain(i)
    \/ \E key \in Keys : Query(key)
    \/ MutateList
    \/ \E i \in 1..Len(result) : MutateRecord(i)
    \/ \E name \in ToolNames, fn \in Callables : Register(name, fn)
    \/ \E name \in ToolNames : Call(name, <<"x">>)

\* the whole system
Spec == Init /\ [][Next]_vars

\* the agent with its Toolbox: runs, registrations and direct tool calls
AgentNext ==
    \/ \E q \in Questions : RunStart(q)
    \/ \E response \in Responses : RunIter(response)
    \/ RunExit
    \/ \E name \in ToolNames, fn \in Callables : Register(name, fn)
    \/ \E name \in ToolNames : Call(name, <<"x">>)

AgentSpec == Init /\ [][AgentNext]_vars

\* Memory with everything that reads or writes it: the caller's adds,
\* queries and changes to what a query gave it, and the agent's runs
MemoryNext ==
    \/ RunStart(Question)
    \/ \E response \in Responses : RunIter(response)
    \/ RunExit
    \/ \E item \in Items : Add(item)
    \/ \E i \in 1..Len(result) : AddAgain(i)
    \/ \E key \in Keys : Query(key)
    \/ MutateList
    \/ \E i \in 1..Len(result) : MutateRecord(i)

\* an agent with the repository's executor and one iteration per run
MemoryInit == Init /\ executor = "KGExecutor" /\ max_steps = 1

MemorySpec == MemoryInit /\ [][MemoryNext]_vars

\* one run of one iteration on a new agent, the model answering with any of
\* the response texts: the parser applied to each of them, and the run
\* acting on what it gives
ParseNext ==
    \/ store = <<>> /\ RunStart(Question)
    \/ /\ pc = "loop" /\ LoopContinues(step, max_steps)
       /\ \E response \in ParseInputs : RunIter(response)
    \/ RunExit

ParseSpec == MemoryInit /\ [][ParseNext]_vars

\* decisions whose tag is none of the three that run tests for
OtherDecisions ==
    { [action |-> "noop", payload |-> <<>>],
      [action |-> "ANSWER", payload |-> <<"d", "e", "m", "o">>] }

\* an agent of a subclass of KGAgent whose _parse_llm_response gives, for
\* some responses, a decision with another tag
SubclassNext ==
    \/ RunStart(Question)
    \/ \E response \in Responses : RunIter(response)
    \/ \E response \in Responses, decision \in OtherDecisions :
          RunIterVia(response, decision)
    \/ RunExit

SubclassSpec == Init /\ [][SubclassNext]_vars

----------------------------------------------------------------------------
(* Vocabulary of the properties *)

Last(s) == s[Len(s)]

IsType(rec, t) == "type" \in DOMAIN rec /\ rec.type = t

IsStepRecord(rec) == IsType(rec, "tool") \/ IsType(rec, "program")

IsTerminalRecord(rec) == IsType(rec, "final_answer") \/ IsType(rec, "timeout")

\* the last operation is a run that is under way or has just ended
InRun == lastOp.op = "run"

\* the records Memory got since the run started, oldest first
RunRecords == Deref(heap, SubSeq(store, runBase + 1, Len(store)))

\* the decisions the model's responses of this run parse to
Decisions == [i \in 1..Len(llmLog) |-> ParseLlmResponse(llmLog[i].response)]

NoAnswer == \A i \in 1..Len(llmLog) : Decisions[i].action # "answer"

\* the decision the last response of a log of model invocations parses to
LastDecision(log) == ParseLlmResponse(log[Len(log)].response)

\* this step is an iteration of the loop
IterStep == pc = "loop" /\ Len(llmLog') = Len(llmLog) + 1

\* text holds msg as a contiguous part
Carries(text, msg) ==
    \E i \in 0..(Len(text) - Len(msg)) : SubSeq(text, i + 1, i + Len(msg)) = msg

Demo == <<"d", "e", "m", "o">>

\* the run ended by an exception of a collaborator at its last iteration:
\* execute_program raised, or a registered tool raised an exception that is
\* no Exception; ret is that exception
CollaboratorRaised ==
    LET d == LastDecision(llmLog) IN
    \/ /\ d.action = "run_program"
       /\ ExecuteProgram(executor, d.payload).kind = "raise"
       /\ ret = ExecuteProgram(executor, d.payload)
    \/ /\ d.action = "call_tool"
       /\ d.payload.tool \in DOMAIN tools
       /\ Invoke(tools[d.payload.tool], d.payload.args).kind = "raise"
       /\ ~IsInstance(Invoke(tools[d.payload.tool], d.payload.args).value,
                      "Exception")
       /\ ret = Invoke(tools[d.payload.tool], d.payload.args)

----------------------------------------------------------------------------
(* C1 *)

\* C1: at every iteration k whose response parses to an Answer decision, run
\* appends exactly one record {type: final_answer, answer, step: k} to
\* Memory, makes no tool or executor call, and returns the answer text; once
\* run has returned, the only step of run that can follow is a new call of
\* run.  If the first response is "ANSWER: demo" and Memory was empty, run
\* returns "demo" after one model invocation and Memory holds exactly one
\* record, a final_answer with step 0.
C1_AnswerEndsRun ==
    [][ /\ (IterStep /\ LastDecision(llmLog').action = "answer") =>
            LET k == Len(llmLog)
                ans == LastDecision(llmLog').payload
            IN  /\ Deref(heap', store') =
                       Append(Deref(heap, store),
                              [type |-> "final_answer", answer |-> ans,
                               step |-> k])
                /\ pc' = "returned"
                /\ ret' = [kind |-> "return", value |-> ans]
                /\ callLog' = callLog
                /\ state' = state
                /\ (k = 0 /\ store = <<>> /\ Strip(Last(llmLog').response)
                                              = ANSWER \o <<" ">> \o Demo) =>
                       /\ ret'.value = Demo
                       /\ Len(llmLog') = 1
                       /\ Deref(heap', store') =
                              << [type |-> "final_answer", answer |-> Demo,
                                  step |-> 0] >>
        /\ (InRun /\ pc \in {"returned", "raised"} /\ lastOp'.op = "run") =>
               /\ pc' = "loop"
               /\ llmLog' = <<>>
               /\ callLog' = <<>>
               /\ store' = store
      ]_vars

\* an Answer at the second iteration of a run that found Memory non-empty
C1_Witness ==
    /\ InRun /\ pc = "returned" /\ runBase >= 1
    /\ Len(llmLog) = 2
    /\ IsType(heap[Last(store)], "final_answer")
    /\ heap[Last(store)].step = 1

----------------------------------------------------------------------------
(* C2 *)

\* what C2 says a run without an Answer does
C2_Outcome ==
    /\ pc = "returned"
    /\ ret = [kind |-> "return",
              value |-> Summary]
    /\ Len(llmLog) = max_steps
    /\ Len(RunRecords) = max_steps + 1
    /\ \A i \in 1..max_steps : IsStepRecord(RunRecords[i])
    /\ IsType(Last(RunRecords), "timeout")
    /\ (\A i \in 1..Len(llmLog) : Decisions[i].action = "run_program") =>
           \A i \in 1..max_steps : IsType(RunRecords[i], "program")

\* C2 as stated, for an agent with the repository's KGExecutor, whose
\* execute_program raises nothing: for max_steps = N >= 1, a run none of
\* whose responses parses to an Answer invokes the model exactly N times,
\* appends N tool/program records and then one timeout record, and returns
\* the summary.  A run that a tool's exception ended is such a run.
C2_Original ==
    (/\ InRun /\ executor = "KGExecutor"
     /\ pc \in {"returned", "raised"} /\ max_steps >= 1 /\ NoAnswer)
        => C2_Outcome

\* C2, what run does: a run without an Answer that returns has made N
\* invocations, left N tool/program records and one timeout record and
\* returns the summary; while the loop is under way every iteration made so
\* far has left one tool/program record; and a run that an exception ended,
\* one that line 205 does not catch or one of execute_program, has left a
\* record for each iteration before that one and no timeout record.
C2_NoAnswerRunsToLimit ==
    /\ (InRun /\ pc = "returned" /\ max_steps >= 1 /\ NoAnswer) => C2_Outcome
    /\ (InRun /\ pc = "loop" /\ max_steps >= 1 /\ NoAnswer) =>
           /\ Len(llmLog) = step
           /\ Len(llmLog) <= max_steps
           /\ Len(RunRecords) = Len(llmLog)
           /\ \A i \in 1..Len(RunRecords) : IsStepRecord(RunRecords[i])
    /\ (InRun /\ pc = "raised") =>
           /\ CollaboratorRaised
           /\ Len(RunRecords) = Len(llmLog) - 1
           /\ \A i \in 1..Len(RunRecords) : IsStepRecord(RunRecords[i])

\* a run of three iterations with the repository's KGExecutor, a tool call
\* and two programs, that ended by timeout
C2_Witness ==
    /\ InRun /\ pc = "returned" /\ max_steps = 3 /\ NoAnswer
    /\ executor = "KGExecutor"
    /\ Len(llmLog) = 3
    /\ IsType(RunRecords[1], "tool")
    /\ IsType(RunRecords[2], "program")
    /\ IsType(RunRecords[3], "program")
    /\ IsType(RunRecords[4], "timeout")
    /\ ret.value = Summary

----------------------------------------------------------------------------
(* C3 *)

\* what C3 says of an iteration whose tool call failed with the message
\* msg: run goes on, and a tool record whose out carries the message is
\* appended to Memory, the same out to the state's steps
Contained(name, msg) ==
    LET rec == heap'[Last(store')] IN
    /\ pc' = "loop"
    /\ ret' = ret
    /\ step' = step + 1
    /\ Len(store') = Len(store) + 1
    /\ Deref(heap', SubSeq(store', 1, Len(store))) = Deref(heap, store)
    /\ IsType(rec, "tool")
    /\ rec.tool = name
    /\ rec.step = Len(llmLog)
    /\ DOMAIN rec.out = {"error"}
    /\ Carries(rec.out.error, msg)
    /\ state' = Append(state, [action |-> "call_tool",
                                tool |-> name, out |-> rec.out])

\* C3 as stated: at every iteration whose CallTool decision fails in
\* Toolbox.call, the name being unregistered or the registered tool
\* raising, run does not end by the exception: it appends a tool record
\* whose out carries the error message to Memory, the same out to the
\* state's steps, and goes on to the next iteration or the step-limit exit.
C3_Original ==
    [][ (/\ IterStep
         /\ LastDecision(llmLog').action = "call_tool"
         /\ \/ LastDecision(llmLog').payload.tool \notin DOMAIN tools
            \/ Invoke(tools[LastDecision(llmLog').payload.tool],
                      LastDecision(llmLog').payload.args).kind = "raise") =>
            LET name == LastDecision(llmLog').payload.tool
                args == LastDecision(llmLog').payload.args
            IN  Contained(name, IF name \in DOMAIN tools
                                THEN Invoke(tools[name], args).value.msg
                                ELSE NotRegistered(name))
      ]_vars

\* C3, what run does: the failure is contained as C3 says when the name is
\* not registered or the registered tool raises an exception that is an
\* Exception.  When the tool raises an exception that is no Exception (a
\* KeyboardInterrupt, a SystemExit), run ends by it: the iteration appends
\* nothing to Memory and to the state's steps.
C3_ToolFailureContained ==
    [][ (IterStep /\ LastDecision(llmLog').action = "call_tool") =>
            LET name == LastDecision(llmLog').payload.tool
                args == LastDecision(llmLog').payload.args
            IN  IF name \notin DOMAIN tools
                THEN Contained(name, NotRegistered(name))
                ELSE LET o == Invoke(tools[name], args) IN
                     /\ (o.kind = "raise"
                            /\ IsInstance(o.value, "Exception"))
                          => Contained(name, o.value.msg)
                     /\ (o.kind = "raise"
                            /\ ~IsInstance(o.value, "Exception"))
                          => /\ pc' = "raised"
                             /\ ret' = o
                             /\ store' = store
                             /\ heap' = heap
                             /\ state' = state
      ]_vars

\* two failed tool calls in one run: a registered tool that raised and a
\* name that is not registered
C3_Witness ==
    /\ InRun /\ pc = "loop" /\ Len(state) = 2
    /\ \A i \in 1..2 : DOMAIN state[i].out = {"error"}
    /\ \E i \in 1..2 : state[i].tool \in DOMAIN tools
    /\ \E i \in 1..2 : state[i].tool \notin DOMAIN tools

----------------------------------------------------------------------------
(* C4 *)

\* the i-th record of the run carries the iteration that produced it: the
\* iterations before it have left one record each
StepIsIteration(i) ==
    /\ "step" \in DOMAIN RunRecords[i]
    /\ RunRecords[i].step = i - 1

\* the step values of the run's records that carry one never decrease
StepsNonDecreasing ==
    \A i, j \in 1..Len(RunRecords) :
        (/\ i < j
         /\ "step" \in DOMAIN RunRecords[i]
         /\ "step" \in DOMAIN RunRecords[j]) =>
            RunRecords[i].step <= RunRecords[j].step

\* C4 as stated, for an agent with max_steps >= 1: every record a run appends
\* to Memory, of every type, the timeout record too, carries a step field
\* equal to the iteration that produced it, and the step values are
\* non-decreasing in append order.
C4_Original ==
    (InRun /\ max_steps >= 1) =>
        /\ \A i \in 1..Len(RunRecords) : "step" \in DOMAIN RunRecords[i]
        /\ \A i \in 1..Len(RunRecords) :
               ~IsType(RunRecords[i], "timeout") => StepIsIteration(i)
        /\ StepsNonDecreasing

\* C4 amended: every tool, program and final_answer record a run appends
\* carries a step field equal to the iteration that produced it, the step
\* values are non-decreasing in append order, and the timeout record, which
\* no iteration produces, carries no step field.
C4_StepOfRecords ==
    InRun =>
        /\ \A i \in 1..Len(RunRecords) :
               \/ /\ IsStepRecord(RunRecords[i]) \/ IsType(RunRecords[i],
                                                           "final_answer")
                  /\ StepIsIteration(i)
               \/ /\ IsType(RunRecords[i], "timeout")
                  /\ "step" \notin DOMAIN RunRecords[i]
        /\ StepsNonDecreasing

\* a run that left a tool record, a program record and a timeout record
C4_Witness ==
    /\ InRun /\ pc = "returned"
    /\ Len(RunRecords) = 3
    /\ \E i \in 1..2 : IsType(RunRecords[i], "tool")
    /\ \E i \in 1..2 : IsType(RunRecords[i], "program")
    /\ IsType(RunRecords[3], "timeout")

----------------------------------------------------------------------------
(* C5 *)

\* the number of terminal records among the run's records
TerminalCount ==
    Cardinality({i \in 1..Len(RunRecords) : IsTerminalRecord(RunRecords[i])})

\* C5: a run invokes the model at most max_steps times, and while it is
\* under way it can always take its next step and has appended no terminal
\* record; when it returns it returns the payload of an Answer decision or
\* the fixed summary, it has appended exactly one terminal record, which is
\* the last record it appended and whose answer/summary field is the
\* returned value; it ends by an exception only when a collaborator raised
\* one that run does not catch: the executor, or a tool raising an
\* exception that is no Exception.
C5_OneReturnPath ==
    InRun =>
        /\ Len(llmLog) <= (IF max_steps > 0 THEN max_steps ELSE 0)
        /\ pc = "loop" =>
               /\ TerminalCount = 0
               /\ Len(llmLog) = step
               /\ ENABLED (RunExit \/ \E response \in Responses :
                                          RunIter(response))
        /\ pc = "returned" =>
               /\ ret.kind = "return"
               /\ TerminalCount = 1
               /\ IsTerminalRecord(Last(RunRecords))
               /\ \/ /\ IsType(Last(RunRecords), "final_answer")
                     /\ LastDecision(llmLog).action = "answer"
                     /\ ret.value = LastDecision(llmLog).payload
                     /\ Last(RunRecords).answer = ret.value
                  \/ /\ IsType(Last(RunRecords), "timeout")
                     /\ NoAnswer
                     /\ ret.value = Summary
                     /\ Last(RunRecords).summary = ret.value
        /\ pc = "raised" =>
               /\ TerminalCount = 0
               /\ CollaboratorRaised

\* a run that returned an answer after a program
C5_Witness ==
    /\ InRun /\ pc = "returned"
    /\ Len(RunRecords) = 2
    /\ IsType(RunRecords[1], "program")
    /\ IsType(RunRecords[2], "final_answer")

----------------------------------------------------------------------------
(* C6 *)

\* what Memory.query(key) shows: the values of the dicts it returns
View(st, hp, key) == Deref(hp, MemoryQuery(st, hp, key))

\* C6 as stated: nothing a caller does to the result of a query, to the
\* list or to a dict reached through it, changes what a later query returns.
C6_Original ==
    [][ lastOp'.op \in {"mutate_list", "mutate_record"} =>
            \A key \in Keys : View(store', heap', key) = View(store, heap, key)
      ]_vars

----------------------------------------------------------------------------
(* C7 *)

IsPrefix(a, b) == Len(a) <= Len(b) /\ SubSeq(b, 1, Len(a)) = a

\* C7: across every add, query and step of a run, what query() showed
\* before is a prefix of what it shows after; and across every step at all
\* the store's list of dicts only grows at its end.
C7_AppendOnly ==
    [][ /\ IsPrefix(store, store')
        /\ lastOp'.op \in {"add", "query", "run"} =>
               IsPrefix(View(store, heap, None), View(store', heap', None))
      ]_vars

\* Memory holds a dict the caller added, then the records of a run, and has
\* been queried
C7_Witness ==
    /\ lastOp.op = "query"
    /\ Len(store) >= 3
    /\ ~IsTerminalRecord(heap[store[1]]) /\ ~IsStepRecord(heap[store[1]])
    /\ IsStepRecord(heap[store[2]])
    /\ IsType(heap[store[3]], "timeout")
    /\ result = store

----------------------------------------------------------------------------
(* C8 *)

\* C8: whatever Memory holds, after add(r) query() returns a list one longer
\* than before, the same up to there, whose last element is r.
C8_AddThenQuery ==
    [][ lastOp'.op = "add" =>
            LET before == MemoryQuery(store, heap, None)
                after == MemoryQuery(store', heap', None)
            IN  /\ Len(after) = Len(before) + 1
                /\ View(store', heap', None)
                       = Append(View(store, heap, None), heap'[Last(after)])
                /\ \/ \E item \in Items :
                          Add(item) /\ heap'[Last(after)] = item
                   \/ \E i \in 1..Len(result) :
                          AddAgain(i) /\ Last(after) = result[i]
      ]_vars

\* a dict that Memory already held has been added again
C8_Witness ==
    /\ lastOp.op = "add"
    /\ Len(store) >= 3
    /\ \E i \in 1..(Len(store) - 1) : store[i] = Last(store)

----------------------------------------------------------------------------
(* C9 *)

\* the places of the store whose dict has the key as a field
KeyIndexes(key) == {i \in 1..Len(store) : key \in DOMAIN heap[store[i]]}

\* the dicts at those places, in the order of the places
Keyed(key) ==
    LET at == KeyIndexes(key)
    IN  [n \in 1..Cardinality(at) |->
            store[CHOOSE i \in at : Cardinality({j \in at : j <= i}) = n]]

\* C9: for every str key, the str 'None' included, query(key) returns the
\* stored dicts that have the key as a field, all of them and no other, in
\* insertion order, whatever value is under the key; and that is what a
\* caller's query with that key got, where a query without a key got the
\* whole store.
C9_QueryByKey ==
    /\ \A k \in StrKeys : MemoryQuery(store, heap, StrKey(k)) = Keyed(k)
    /\ lastOp.op = "query" =>
           /\ lastOp.arg \in Keys
           /\ lastOp.arg = None => result = store
           /\ \A k \in StrKeys : lastOp.arg = StrKey(k) => result = Keyed(k)

\* a query by the str key 'None' that kept two dicts with a zero under the
\* key and left out a dict between them, where a query without a key gives
\* all three
C9_Witness ==
    /\ lastOp = [op |-> "query", arg |-> StrKey("None")]
    /\ Len(store) = 3
    /\ result = <<store[1], store[3]>>
    /\ "None" \in DOMAIN heap[store[1]]
    /\ heap[store[1]]["None"] = 0
    /\ "None" \notin DOMAIN heap[store[2]]
    /\ "None" \in DOMAIN heap[store[3]]
    /\ MemoryQuery(store, heap, None) = store
    /\ result # store

----------------------------------------------------------------------------
(* C10 *)

\* C10: Toolbox.call on a name that is not registered raises KeyError,
\* invokes nothing and leaves the registry as it was; on a registered name it
\* invokes the callable bound to the name, once, with the given arguments,
\* and what that callable returns or raises is what call returns or raises.
\* The same holds of the call a run makes for a CallTool decision.
C10_CallDispatch ==
    [][ /\ \A name \in ToolNames :
               Call(name, <<"x">>) =>
                   /\ tools' = tools
                   /\ IF name \notin DOMAIN tools
                      THEN /\ ret'.kind = "raise"
                           /\ ret'.value.mro[1] = "KeyError"
                           /\ callLog' = <<>>
                      ELSE /\ callLog' = <<[callee |-> tools[name],
                                            args |-> <<"x">>]>>
                           /\ ret' = [kind |-> Invoke(tools[name], <<"x">>).kind,
                                      value |-> Invoke(tools[name],
                                                       <<"x">>).value]
        /\ (IterStep /\ LastDecision(llmLog').action = "call_tool") =>
               LET name == LastDecision(llmLog').payload.tool
                   args == LastDecision(llmLog').payload.args
               IN  /\ tools' = tools
                   /\ IF name \notin DOMAIN tools
                      THEN /\ callLog' = callLog
                           /\ Carries(Last(state').out.error,
                                      NotRegistered(name))
                      ELSE /\ callLog' = Append(callLog,
                                                [callee |-> tools[name],
                                                 args |-> args])
                           /\ Invoke(tools[name], args).kind = "return" =>
                                  Last(state').out
                                      = Invoke(tools[name], args).value
      ]_vars

\* a direct call of a registered name, the other name being bound to another
\* callable
C10_Witness ==
    /\ lastOp.op = "call"
    /\ DOMAIN tools = ToolNames
    /\ \E n, m \in ToolNames : tools[n] # tools[m]
    /\ Len(callLog) = 1
    /\ ret.kind = "return"

----------------------------------------------------------------------------
(* C11 *)

\* C11: the registry is last-write-wins.  A register(name, fn), for a name
\* that is bound or not, ends without an exception with name bound to fn,
\* and every other name keeps the binding it had; no other operation
\* changes a binding.  So the binding of a name is always the callable of
\* the most recent register for it, and a call of the name, by the
\* application or by a run, invokes exactly that callable.
C11_LastWriteWins ==
    [][ /\ \A name \in ToolNames, fn \in Callables :
              Register(name, fn) =>
                  /\ DOMAIN tools' = DOMAIN tools \cup {name}
                  /\ tools'[name] = fn
                  /\ \A n \in DOMAIN tools \ {name} : tools'[n] = tools[n]
                  /\ ret' = ret
                  /\ pc' = "idle"
        /\ lastOp'.op # "register" => tools' = tools
        /\ \A name \in DOMAIN tools :
              /\ Call(name, <<"x">>) =>
                      callLog' = <<[callee |-> tools[name], args |-> <<"x">>]>>
              /\ (IterStep /\ LastDecision(llmLog').action = "call_tool"
                          /\ LastDecision(llmLog').payload.tool = name) =>
                      /\ Len(callLog') = Len(callLog) + 1
                      /\ Last(callLog').callee = tools[name]
      ]_vars

\* a name that was called while bound to one callable is registered again
\* with the other one, the other name keeping its binding
C11_Witness ==
    /\ lastOp.op = "register"
    /\ DOMAIN tools = ToolNames
    /\ Len(callLog) = 1
    /\ callLog[1].callee = "retrieve_facts_stub"
    /\ \A n \in ToolNames : tools[n] = "raising_tool"

----------------------------------------------------------------------------
(* Vocabulary of the parser claims: what the claims say of a text, stated
   on its characters *)

\* the positions of s that hold a character other than whitespace
Ink(s) == { i \in 1..Len(s) : s[i] \notin Whitespace }

\* s without its leading and trailing whitespace: from its first to its last
\* character that is not whitespace
Trimmed(s) ==
    IF Ink(s) = {} THEN <<>>
    ELSE SubSeq(s, CHOOSE i \in Ink(s) : \A k \in Ink(s) : i <= k,
                   CHOOSE j \in Ink(s) : \A k \in Ink(s) : j >= k)

\* the characters of "ANSWER:" in every letter case: the capital and the
\* small letter, and for S also the long s, the other small form of S
AnswerCases ==
    << {"A", "a"}, {"N", "n"}, {"S", "s", "\\u017f"}, {"W", "w"}, {"E", "e"},
       {"R", "r"}, {":"} >>

\* text begins with "ANSWER:" in any letter case
BeginsAnswer(text) ==
    /\ Len(text) >= 7
    /\ \A i \in 1..7 : text[i] \in AnswerCases[i]

\* text begins with the literal "CALL "
BeginsCall(text) ==
    /\ Len(text) >= 5
    /\ text[1] = "C" /\ text[2] = "A" /\ text[3] = "L" /\ text[4] = "L"
    /\ text[5] = " "

\* the one iteration of the run is made
Parsed == InRun /\ Len(llmLog) = 1

\* the trimmed text of the response of that iteration
Text == Trimmed(llmLog[1].response)

\* the record the iteration appended
IterRecord == heap[store[runBase + 1]]

----------------------------------------------------------------------------
(* C12 *)

\* C12: "ANSWER:" comes first in the parser's chain.  Every response whose
\* trimmed text begins with "ANSWER:" in any letter case parses to an Answer
\* whose payload is the text after these 7 characters without its
\* surrounding whitespace, also when that text begins with or contains
\* "CALL "; run acts on it as an answer: it returns the payload, records it
\* as final_answer, and makes no tool or executor call.
C12_AnswerFirst ==
    Parsed =>
        LET text == Text
            decision == LastDecision(llmLog)
        IN  BeginsAnswer(text) =>
                /\ decision.action = "answer"
                /\ decision.payload = Trimmed(SubSeq(text, 8, Len(text)))
                /\ pc = "returned"
                /\ ret = [kind |-> "return", value |-> decision.payload]
                /\ IsType(IterRecord, "final_answer")
                /\ IterRecord.answer = decision.payload
                /\ state = <<>>
                /\ callLog = <<>>

\* a response led by a tab, a newline and a vertical tab, with the prefix in
\* lower case and the long s for the s, the payload being a tool call text
C12_Witness ==
    /\ Parsed
    /\ Len(llmLog[1].response) > 6
    /\ llmLog[1].response[3] = "\\x0b"
    /\ llmLog[1].response[4] = "a"
    /\ llmLog[1].response[6] = "\\u017f"
    /\ ret = [kind |-> "return", value |-> <<"C", "A", "L", "L", " ", "x">>]

----------------------------------------------------------------------------
(* C13 *)

\* the first position after k that holds a character other than whitespace,
\* 0 if there is none
NextInk(text, k) ==
    IF \E i \in Ink(text) : i > k
    THEN CHOOSE i \in Ink(text) : i > k /\ \A j \in Ink(text) : j > k => i <= j
    ELSE 0

\* the last position of the whitespace-delimited field that begins at a
FieldEnd(text, a) ==
    CHOOSE b \in a..Len(text) :
        /\ \A i \in a..b : text[i] \notin Whitespace
        /\ b = Len(text) \/ text[b + 1] \in Whitespace

\* C13: every response whose trimmed text begins with the literal "CALL "
\* parses to CallTool(toolName, rawArgs): toolName is the second
\* whitespace-delimited field of the text, rawArgs is everything from the
\* first character after the whitespace that follows the tool name to the
\* end of the text, internal whitespace kept, and the empty string when
\* nothing follows the tool name.  run acts on it as a tool call of that
\* name.
C13_CallFields ==
    Parsed =>
        LET text == Text
            decision == LastDecision(llmLog)
            a == NextInk(text, 5)
            b == FieldEnd(text, a)
            c == NextInk(text, b)
        IN  BeginsCall(text) =>
                /\ decision.action = "call_tool"
                /\ decision.payload.tool = SubSeq(text, a, b)
                /\ decision.payload.args
                      = IF c = 0 THEN <<>> ELSE SubSeq(text, c, Len(text))
                /\ pc = "loop" \/ ret.value = Summary
                /\ Len(state) = 1
                /\ state[1].action = "call_tool"
                /\ state[1].tool = SubSeq(text, a, b)
                /\ IsType(IterRecord, "tool")
                /\ IterRecord.tool = SubSeq(text, a, b)

\* the response "CALL x x  y": a call of x whose arguments "x  y" hold two
\* spaces
C13_Witness ==
    /\ Parsed
    /\ BeginsCall(Text)
    /\ Len(Text) > 10
    /\ LastDecision(llmLog).payload
          = [tool |-> <<"x">>, args |-> <<"x", " ", " ", "y">>]
    /\ IsType(IterRecord, "tool")

----------------------------------------------------------------------------
(* C14 *)

\* C14: the parser is total and falls through to RunProgram.  Every response
\* parses to a decision with one of the three tags, and a response whose
\* trimmed text begins with neither "ANSWER:" in any letter case nor the
\* literal "CALL " parses to RunProgram with the whole trimmed text, which
\* run hands to the executor and records as a program step; lower-case
\* "call x", a bare "CALL" and the empty text are such texts.
C14_Fallthrough ==
    Parsed =>
        LET text == Text
            decision == LastDecision(llmLog)
        IN  /\ decision.action \in {"answer", "call_tool", "run_program"}
            /\ (~BeginsAnswer(text) /\ ~BeginsCall(text)) =>
                    /\ decision = [action |-> "run_program", payload |-> text]
                    /\ callLog = <<[callee |-> executor, args |-> text]>>
                    /\ state = <<[action |-> "run_program",
                                   program |-> text,
                                   out |-> PyNone]>>
                    /\ IsType(IterRecord, "program")
                    /\ IterRecord.program = text

\* the response "call x" was run as a program
C14_Witness ==
    /\ Parsed
    /\ Len(state) = 1
    /\ state[1].action = "run_program"
    /\ state[1].program = <<"c", "a", "l", "l", " ", "x">>

----------------------------------------------------------------------------
(* C15 *)

\* C15: an iteration whose decision carries a tag other than answer,
\* call_tool and run_program ends the loop at once: the iteration makes no
\* tool and no executor call and appends no tool, program or final_answer
\* record, run returns the fixed summary, which is not an answer, and no
\* model invocation follows in this run.
C15_UnknownTagEndsLoop ==
    [][ /\ \A response \in Responses, decision \in OtherDecisions :
              RunIterVia(response, decision) =>
                  /\ pc' = "returned"
                  /\ ret' = [kind |-> "return", value |-> Summary]
                  /\ callLog' = callLog
                  /\ state' = state
                  /\ Len(store') = Len(store) + 1
                  /\ IsPrefix(Deref(heap, store), Deref(heap', store'))
                  /\ ~IsStepRecord(heap'[Last(store')])
                  /\ ~IsType(heap'[Last(store')], "final_answer")
        /\ (InRun /\ pc = "returned" /\ llmLog' # llmLog) =>
              pc' = "loop" /\ llmLog' = <<>> /\ ret' = NoRet
      ]_vars

\* a run with max_steps = 2 whose first iteration was a tool call and whose
\* second iteration ended it without an answer and without a step record
C15_Witness ==
    /\ InRun
    /\ pc = "returned"
    /\ max_steps = 2
    /\ Len(llmLog) = 2
    /\ Len(RunRecords) = 2
    /\ IsType(RunRecords[1], "tool")
    /\ ret.value = Summary

----------------------------------------------------------------------------
(* C16 *)

\* the step that run keeps in its state for a tool or program record
StepOfRecord(rec) ==
    IF IsType(rec, "tool")
    THEN [action |-> "call_tool", tool |-> rec.tool, out |-> rec.out]
    ELSE [action |-> "run_program", program |-> rec.program, out |-> rec.out]

\* C16: the model is invoked once per iteration, in order.  The k-th
\* invocation of a run (k from 0) carries the metadata {step: k} and a
\* prompt made of the question of the run and of a state whose steps are
\* exactly the k steps of iterations 0..k-1 of this run, in order: the
\* steps of the tool and program records that Memory got in this run.
C16_PromptOfIteration ==
    InRun =>
        /\ pc = "loop" => Len(llmLog) = step
        /\ \A i \in 1..Len(llmLog) :
              /\ llmLog[i].metadata = [step |-> i - 1]
              /\ llmLog[i].prompt.question = lastOp.arg
              /\ DOMAIN llmLog[i].prompt.state.steps = 1..(i - 1)
              /\ Len(RunRecords) >= i - 1
              /\ \A j \in 1..(i - 1) :
                    /\ IsStepRecord(RunRecords[j])
                    /\ RunRecords[j].step = j - 1
                    /\ llmLog[i].prompt.state.steps[j]
                          = StepOfRecord(RunRecords[j])

\* the third invocation of a run on the second question, made after a tool
\* call that returned and then a program: its prompt shows the two steps,
\* the tool call first
C16_Witness ==
    /\ InRun
    /\ lastOp.arg = "q2"
    /\ Len(llmLog) = 3
    /\ llmLog[3].prompt.question = "q2"
    /\ Len(llmLog[3].prompt.state.steps) = 2
    /\ llmLog[3].prompt.state.steps[1].action = "call_tool"
    /\ "facts" \in DOMAIN llmLog[3].prompt.state.steps[1].out
    /\ llmLog[3].prompt.state.steps[2].action = "run_program"
    /\ llmLog[2].prompt.state.steps = <<llmLog[3].prompt.state.steps[1]>>
    /\ llmLog[1].prompt.state.steps = <<>>

----------------------------------------------------------------------------
(* C17 *)

\* C17: the state of the agent is per run, Memory is not.  Every call of run
\* starts with no steps and the step counter 0 and leaves Memory as it is,
\* so the first prompt of a run shows no step of an earlier run and carries
\* step 0; and every step of a run keeps all records Memory holds, those of
\* earlier runs included, in their order and before the records it appends.
C17_StatePerRun ==
    [][ /\ (pc # "loop" /\ pc' = "loop") =>
              /\ step' = 0
              /\ state' = <<>>
              /\ llmLog' = <<>>
              /\ Deref(heap', store') = Deref(heap, store)
              /\ runBase' = Len(store)
        /\ (IterStep /\ llmLog = <<>>) =>
              /\ llmLog'[1].prompt.state.steps = <<>>
              /\ llmLog'[1].metadata.step = 0
        /\ lastOp'.op = "run" =>
              /\ IsPrefix(Deref(heap, store), Deref(heap', store'))
              /\ runBase' >= runBase
      ]_vars

\* a later run, at work on an agent whose Memory holds the tool record and
\* the timeout record of an earlier run, has appended its own record
C17_Witness ==
    /\ InRun
    /\ runBase = 2
    /\ IsType(heap[store[1]], "tool")
    /\ IsType(heap[store[2]], "timeout")
    /\ Len(llmLog) = 1
    /\ llmLog[1].prompt.state.steps = <<>>
    /\ Len(store) = 3

----------------------------------------------------------------------------
(* C18 *)

\* C18: nothing contains a failure of the executor.  If execute_program
\* raises at iteration k, run ends by that exception: the iteration appends
\* no record and no step, the records of iterations 0..k-1 stay in Memory as
\* they are, and the run appends nothing later, neither a timeout nor a
\* final_answer record; only a new call of run goes on.
C18_ExecutorFailurePropagates ==
    [][ /\ (IterStep /\ LastDecision(llmLog').action = "run_program"
                     /\ ExecuteProgram(executor,
                                        LastDecision(llmLog').payload).kind
                            = "raise") =>
              /\ pc' = "raised"
              /\ ret' = ExecuteProgram(executor, LastDecision(llmLog').payload)
              /\ store' = store
              /\ heap' = heap
              /\ state' = state
              /\ Len(store') - runBase' = Len(llmLog') - 1
              /\ \A i \in (runBase' + 1)..Len(store') :
                    /\ IsStepRecord(heap'[store'[i]])
                    /\ heap'[store'[i]].step = i - runBase' - 1
        /\ (InRun /\ pc = "raised" /\ lastOp'.op = "run") =>
              /\ pc' = "loop"
              /\ llmLog' = <<>>
              /\ store' = store
              /\ heap' = heap
      ]_vars

\* the executor raised at the second iteration of a run, after a tool step
C18_Witness ==
    /\ InRun
    /\ pc = "raised"
    /\ ret.kind = "raise"
    /\ LastDecision(llmLog).action = "run_program"
    /\ Len(llmLog) = 2
    /\ Len(RunRecords) = 1
    /\ IsType(RunRecords[1], "tool")

----------------------------------------------------------------------------
(* C19 *)

\* C19: every CallTool decision the parser gives has a tool name that is not
\* empty and holds no whitespace, whatever whitespace leads, follows or is
\* inside the response; so the tool name run records, and calls the Toolbox
\* with, is never empty.
C19_ToolNamePresent ==
    Parsed =>
        LET decision == LastDecision(llmLog) IN
        /\ decision.action = "call_tool" =>
                /\ decision.payload.tool # <<>>
                /\ \A i \in 1..Len(decision.payload.tool) :
                        decision.payload.tool[i] \notin Whitespace
        /\ \A i \in 1..Len(state) :
                state[i].action = "call_tool" =>
                    /\ state[i].tool # <<>>
                    /\ \A j \in 1..Len(state[i].tool) :
                            state[i].tool[j] \notin Whitespace
                    /\ IterRecord.tool = state[i].tool

\* a tool call parsed from a response that ends in whitespace and has more
\* than one whitespace character between "CALL" and the tool name
C19_Witness ==
    /\ Parsed
    /\ Len(state) = 1
    /\ state[1].action = "call_tool"
    /\ Last(llmLog[1].response) \in Whitespace
    /\ llmLog[1].response[1] = "C"
    /\ llmLog[1].response[6] \in Whitespace

----------------------------------------------------------------------------
(* C20 *)

\* C20: an agent constructed with max_steps <= 0, which the constructor
\* accepts, makes no iteration: a run invokes the model, the Toolbox and the
\* executor zero times, appends exactly one record, the timeout record, and
\* returns the fixed summary.
C20_NoIterations ==
    (InRun /\ max_steps <= 0) =>
        /\ llmLog = <<>>
        /\ callLog = <<>>
        /\ state = <<>>
        /\ pc \in {"loop", "returned"}
        /\ pc = "loop" => RunRecords = <<>> /\ ENABLED RunExit
        /\ pc = "returned" =>
              /\ RunRecords = <<TimeoutRecord>>
              /\ ret = [kind |-> "return", value |-> Summary]

\* the second run of an agent with max_steps = -1 has returned
C20_Witness ==
    /\ InRun
    /\ max_steps = -1
    /\ pc = "returned"
    /\ runBase = 1
    /\ Len(store) = 2

====
